---------------------------- MODULE Spec2Model ----------------------------
(***************************************************************************)
(* The Streamlit script src/dashboard.py as a state machine.               *)
(*                                                                         *)
(* The script is executed from top to bottom once when the page is opened  *)
(* (LoadData: load_data() and the first render with the widgets' default   *)
(* values, or LoadDataFails when a file cannot be read) and once more each *)
(* time a sidebar widget changes (ChangeDateRange, ChangePaymentMethod).   *)
(* One action is one whole run.                                            *)
(*                                                                         *)
(* Tables are sequences of records, one record per row, in row order.      *)
(* Timestamps are integers counting ticks of 1/TicksPerDay of a day from   *)
(* midnight of calendar date 0; NaT is the missing timestamp.  Fractions   *)
(* (means, rates) are kept exact as [num, den]; a percentage rounded to    *)
(* one decimal is kept as an integer number of tenths.                     *)
(*                                                                         *)
(* Line 276 of the script is a truncated copy of the statement that lines  *)
(* 286-289 give in full; the model reads lines 268-276 as superseded by    *)
(* lines 278-289.  Charts are drawn from the tables modelled here and are  *)
(* not modelled themselves.                                                *)
(***************************************************************************)
EXTENDS Integers, Sequences, FiniteSets, TLC

VARIABLES
    pc,                   \* "start" before the first run, "rendered" after a run,
                          \* "failed" when load_data returned no data
    unreadable,           \* the files whose pd.read_csv raises
    load_error,           \* the file named by "Error loading data: ..."
    orders,               \* orders_dataset.csv as loaded
    payments,             \* order_payments_dataset.csv as loaded
    reviews,              \* order_reviews_dataset.csv as loaded
    date_range,           \* value of the "Select Date Range" widget
    selected_payment,     \* value of the "Payment Method" widget
    valid_orders,         \* orders without missing dates, with the derived columns
    filtered_orders,
    orders_with_payments,
    filtered_payments,
    payment_data,         \* payment method distribution
    delivery_reviews,
    on_time_rate,
    late_orders,          \* all late orders, sorted
    late_table,           \* the rows of the displayed late-orders table
    avg_review,
    exception,            \* "none", or the exception that ended the run
    shown                 \* the elements the run has put on the page

vars == <<pc, unreadable, load_error, orders, payments, reviews, date_range, selected_payment,
          valid_orders, filtered_orders, orders_with_payments,
          filtered_payments, payment_data, delivery_reviews, on_time_rate,
          late_orders, late_table, avg_review, exception, shown>>

---------------------------------------------------------------------------
(* Bounds of the model                                                     *)

MaxTime == 3
TicksPerDay == 2
MaxLateRows == 11
MaxPayTypes == 6
MaxPayRows == 6

(* Program constant: late_orders.head(10)                                  *)
TopN == 10

---------------------------------------------------------------------------
(* Timestamps, dates, timedeltas                                           *)

NaT == 0 - 1
Times == 0..MaxTime
TimesOrNaT == Times \cup {NaT}

\* A days accessor that drops the fraction of a day toward zero
DaysTowardZero(td) ==
    IF td >= 0 THEN td \div TicksPerDay ELSE 0 - ((0 - td) \div TicksPerDay)

\* Timedelta.days (the .dt.days accessor): whole days, rounded toward
\* minus infinity (timedelta(hours=-12).days is -1).
Days(td) == td \div TicksPerDay

\* Timestamp.date(): the calendar date of a timestamp
DateOf(t) == t \div TicksPerDay

\* pd.to_datetime(date): midnight at the start of the date
ToDatetime(d) == d * TicksPerDay

\* timedelta(days=1)
OneDay == TicksPerDay

Min(a, b) == IF a <= b THEN a ELSE b

RECURSIVE SeqSum(_)
SeqSum(s) == IF s = <<>> THEN 0 ELSE Head(s) + SeqSum(Tail(s))

Range(s) == {s[i] : i \in 1..Len(s)}

---------------------------------------------------------------------------
(* Lines 39-46: valid_orders and its derived columns                       *)

NotNa(o) ==
    /\ o.order_purchase_timestamp # NaT
    /\ o.order_delivered_customer_date # NaT
    /\ o.order_estimated_delivery_date # NaT

DropNa(tbl) == SelectSeq(tbl, NotNa)

delivery_days(o) ==
    Days(o.order_delivered_customer_date - o.order_purchase_timestamp)

is_late(o) ==
    o.order_delivered_customer_date > o.order_estimated_delivery_date

\* days_late without the np.where(is_late, ..., 0) around it
days_late_unguarded(o) ==
    Days(o.order_delivered_customer_date - o.order_estimated_delivery_date)

days_late(o) ==
    IF is_late(o)
    THEN Days(o.order_delivered_customer_date - o.order_estimated_delivery_date)
    ELSE 0

WithMetrics(o) ==
    [order_id |-> o.order_id,
     order_purchase_timestamp |-> o.order_purchase_timestamp,
     order_delivered_customer_date |-> o.order_delivered_customer_date,
     order_estimated_delivery_date |-> o.order_estimated_delivery_date,
     delivery_days |-> delivery_days(o),
     is_late |-> is_late(o),
     days_late |-> days_late(o)]

ValidOrders(tbl) ==
    LET kept == DropNa(tbl) IN [i \in 1..Len(kept) |-> WithMetrics(kept[i])]

---------------------------------------------------------------------------
(* Lines 52-60: the date range widget and the range filter                 *)

PurchaseTimes(valid) == {valid[i].order_purchase_timestamp : i \in 1..Len(valid)}

SetMin(S) == CHOOSE x \in S : \A y \in S : x <= y
SetMax(S) == CHOOSE x \in S : \A y \in S : x >= y

min_date(valid) == DateOf(SetMin(PurchaseTimes(valid)))
max_date(valid) == DateOf(SetMax(PurchaseTimes(valid)))

\* The values st.sidebar.date_input can return: one date while the user has
\* picked only the first end of the range, otherwise two dates; each date
\* lies within [min_value, max_value].  The script does not compare the two.
DateRanges(valid) ==
    LET ds == min_date(valid)..max_date(valid) IN
    {<<d>> : d \in ds} \cup {<<s, e>> : s \in ds, e \in ds}

InRange(o, start_date, end_date) ==
    /\ o.order_purchase_timestamp >= start_date
    /\ o.order_purchase_timestamp <= end_date

FilteredOrders(valid, dr) ==
    IF Len(dr) = 2
    THEN LET start_date == ToDatetime(dr[1])
             end_date == ToDatetime(dr[2]) + OneDay
             Keep(o) == InRange(o, start_date, end_date)
         IN SelectSeq(valid, Keep)
    ELSE valid

---------------------------------------------------------------------------
(* Lines 63, 143: DataFrame.merge(right, on="order_id", how="inner")       *)

MatchRows(l, right) ==
    LET Same(r) == r.order_id = l.order_id
        m == SelectSeq(right, Same)
    IN [i \in 1..Len(m) |-> l @@ m[i]]

RECURSIVE Merge(_, _)
Merge(left, right) ==
    IF left = <<>> THEN <<>>
    ELSE MatchRows(Head(left), right) \o Merge(Tail(left), right)

---------------------------------------------------------------------------
(* sort_values(..., ascending=False) and value_counts(): rows in            *)
(* non-increasing order of .key.  The order of rows with equal keys is not *)
(* fixed by the script (the default sort is not stable): ties_reversed     *)
(* selects one of two tie orders.                                          *)

RECURSIVE Insert(_, _, _)
Insert(x, s, ties_reversed) ==
    IF s = <<>> THEN <<x>>
    ELSE IF x.key > Head(s).key \/ (ties_reversed /\ x.key = Head(s).key)
         THEN <<x>> \o s
         ELSE <<Head(s)>> \o Insert(x, Tail(s), ties_reversed)

RECURSIVE SortDescending(_, _)
SortDescending(s, ties_reversed) ==
    IF s = <<>> THEN <<>>
    ELSE Insert(s[Len(s)],
                SortDescending(SubSeq(s, 1, Len(s) - 1), ties_reversed),
                ties_reversed)

---------------------------------------------------------------------------
(* Lines 66-75: the payment method widget and filtered_payments            *)

PaymentOptions(pay) == {"All"} \cup {pay[i].payment_type : i \in 1..Len(pay)}

FilteredPayments(owp, sel) ==
    IF sel = "All" THEN owp
    ELSE LET Keep(r) == r.payment_type = sel IN SelectSeq(owp, Keep)

---------------------------------------------------------------------------
(* Lines 84-89: payment_data                                               *)

\* num/den * 100 in tenths with the further digits cut off
RoundTenthsDown(num, den) == (num * 1000) \div den

\* Series.round(1) of num/den * 100, in tenths: round half to even

RoundTenths(num, den) ==
    LET q == (num * 1000) \div den
        r == (num * 1000) % den
    IN IF 2 * r > den \/ (2 * r = den /\ q % 2 = 1) THEN q + 1 ELSE q

RECURSIVE Uniq(_)
Uniq(s) ==
    IF s = <<>> THEN <<>>
    ELSE LET rest == Uniq(SubSeq(s, 1, Len(s) - 1)) IN
         IF s[Len(s)] \in Range(rest) THEN rest ELSE Append(rest, s[Len(s)])

CountOf(tbl, type) == Cardinality({i \in 1..Len(tbl) : tbl[i].payment_type = type})

ValueCounts(tbl) ==
    LET types == Uniq([i \in 1..Len(tbl) |-> tbl[i].payment_type])
        rows == [i \in 1..Len(types) |->
                    [payment_type |-> types[i], key |-> CountOf(tbl, types[i])]]
    IN SortDescending(rows, FALSE)

PaymentData(tbl) ==
    LET vc == ValueCounts(tbl)
        total_payments == SeqSum([i \in 1..Len(vc) |-> vc[i].key])
    IN [i \in 1..Len(vc) |->
           [payment_type |-> vc[i].payment_type,
            count |-> vc[i].key,
            percentage |-> RoundTenths(vc[i].key, total_payments)]]

---------------------------------------------------------------------------
(* Lines 148-154, 202-217: delivery metrics and the late orders table      *)

NaN == [nan |-> TRUE, num |-> 0, den |-> 1]
Frac(n, d) == [nan |-> FALSE, num |-> n, den |-> d]

\* Series.mean() of a column given as a sequence of integers; NaN when empty
Mean(s) == IF s = <<>> THEN NaN ELSE Frac(SeqSum(s), Len(s))

OnTimeRate(filtered) ==
    LET m == Mean([i \in 1..Len(filtered) |->
                      IF filtered[i].is_late = FALSE THEN 1 ELSE 0])
    IN IF m.nan THEN NaN ELSE Frac(m.num * 100, m.den)

LateRow(o) ==
    [order_id |-> o.order_id,
     days_late |-> o.days_late,
     order_purchase_timestamp |-> o.order_purchase_timestamp,
     key |-> o.days_late]

KeepLate(o) == o.is_late

LateOrders(filtered, ties_reversed) ==
    LET late == SelectSeq(filtered, KeepLate)
    IN SortDescending([i \in 1..Len(late) |-> LateRow(late[i])], ties_reversed)

\* head() that returns one row more than asked for
HeadOneMore(tbl, n) == SubSeq(tbl, 1, Min(n + 1, Len(tbl)))

HeadRows(tbl, n) == SubSeq(tbl, 1, Min(n, Len(tbl)))

---------------------------------------------------------------------------
(* Lines 143, 222-229: review metrics                                      *)

\* The reviews table itself, not joined to the filtered orders
ReviewsOfAll(filtered, rev) == rev

DeliveryReviews(filtered, rev) == Merge(filtered, rev)

AvgReview(dr) == Mean([i \in 1..Len(dr) |-> dr[i].review_score])

---------------------------------------------------------------------------
(* One run of the script, lines 35-358, with the data as loaded and the    *)
(* widgets at the given values.  widget_dates = <<>> stands for the first  *)
(* run, where date_input returns its default [min_date, max_date].         *)

NotComputed == [nan |-> FALSE, num |-> 0, den |-> 0]

\* Lines 139-320, reached when tab 1 has completed
Tabs2And3(filtered, r, ties_reversed) ==
    LET dr == DeliveryReviews(filtered, r)
        late == LateOrders(filtered, ties_reversed)
    IN /\ delivery_reviews' = dr
       /\ on_time_rate' = OnTimeRate(filtered)
       /\ late_orders' = late
       /\ late_table' = IF late # <<>> THEN HeadRows(late, TopN) ELSE <<>>
       /\ avg_review' = IF dr # <<>> THEN AvgReview(dr) ELSE NotComputed
       /\ shown' = {"on_time_metric"}
                   \cup (IF late # <<>> THEN {"late_table"} ELSE {"late_info"})
                   \cup (IF dr # <<>> THEN {"avg_review_metric"} ELSE {"review_info"})

NothingFromTabs2And3 ==
    /\ delivery_reviews' = <<>>
    /\ on_time_rate' = NotComputed
    /\ late_orders' = <<>>
    /\ late_table' = <<>>
    /\ avg_review' = NotComputed
    /\ shown' = {}

Script(o, p, r, widget_dates, sel, ties_reversed) ==
    LET valid == ValidOrders(o) IN
    /\ valid_orders' = valid
    /\ IF valid = <<>>
       THEN \* line 52: .min() of an empty column is NaT and NaT.date() raises
            /\ exception' = "NaT_date"
            /\ date_range' = <<>>
            /\ selected_payment' = "All"
            /\ filtered_orders' = <<>>
            /\ orders_with_payments' = <<>>
            /\ filtered_payments' = <<>>
            /\ payment_data' = <<>>
            /\ NothingFromTabs2And3
       ELSE LET dr == IF widget_dates = <<>>
                      THEN <<min_date(valid), max_date(valid)>>
                      ELSE widget_dates
                filtered == FilteredOrders(valid, dr)
                owp == Merge(filtered, p)
                pdata == PaymentData(owp)
            IN /\ date_range' = dr
               /\ selected_payment' = sel
               /\ filtered_orders' = filtered
               /\ orders_with_payments' = owp
               /\ filtered_payments' = FilteredPayments(owp, sel)
               /\ payment_data' = pdata
               /\ IF pdata = <<>>
                  THEN \* line 114: payment_data.iloc[0] of an empty frame raises
                       /\ exception' = "empty_payment_data"
                       /\ NothingFromTabs2And3
                  ELSE /\ exception' = "none"
                       /\ Tabs2And3(filtered, r, ties_reversed)

---------------------------------------------------------------------------
(* The data sets the model loads                                           *)

Order(id, purchase, delivered, estimated) ==
    [order_id |-> id,
     order_purchase_timestamp |-> purchase,
     order_delivered_customer_date |-> delivered,
     order_estimated_delivery_date |-> estimated]

Payment(id, type) == [order_id |-> id, payment_type |-> type]

Review(id, score) == [order_id |-> id, review_score |-> score]

AllPaymentTypes ==
    <<"boleto", "credit_card", "debit_card", "not_defined", "voucher",
      "type_6", "type_7", "type_8">>

RECURSIVE Concat(_)
Concat(ss) == IF ss = <<>> THEN <<>> ELSE Head(ss) \o Concat(Tail(ss))

\* One or two orders, each purchased at any time and either delivered at
\* MaxTime or not delivered yet; per order no, one or two payment rows and
\* no or one review.
OrderChoices(id) ==
    {<<Order(id, t, d, MaxTime)>> : t \in Times, d \in {NaT, MaxTime}}

PaymentChoices(id) ==
    {<<>>, <<Payment(id, "boleto")>>, <<Payment(id, "credit_card")>>,
     <<Payment(id, "boleto"), Payment(id, "credit_card")>>}

ReviewChoices(id) == {<<>>, <<Review(id, 1)>>, <<Review(id, 5)>>}

OrderTables == {a \o b : a \in OrderChoices(1), b \in {<<>>} \cup OrderChoices(2)}
PaymentTables == {a \o b : a \in PaymentChoices(1), b \in PaymentChoices(2)}
ReviewTables == {a \o b : a \in ReviewChoices(1), b \in ReviewChoices(2)}

\* One order with every combination of present and missing timestamps
OneOrderTables ==
    {<<Order(1, t, d, e)>> : t \in TimesOrNaT, d \in TimesOrNaT, e \in TimesOrNaT}

OnePaymentTables == {<<>>, <<Payment(1, "credit_card")>>}

\* 1..MaxLateRows orders purchased and due at time 0; order i is delivered
\* at (a + b*i) mod (MaxTime+1)
ManyOrderTables ==
    {[i \in 1..n |-> Order(i, 0, (a + b * i) % (MaxTime + 1), 0)] :
        n \in 1..MaxLateRows, a \in Times, b \in Times}

\* All ways to give MaxPayTypes payment types at most MaxPayRows rows
RECURSIVE CountVectors(_, _)
CountVectors(k, m) ==
    IF k = 0 THEN {<<>>}
    ELSE UNION {{<<c>> \o v : v \in CountVectors(k - 1, m - c)} : c \in 0..m}

ManyPaymentTables ==
    {Concat([t \in 1..MaxPayTypes |->
                [i \in 1..cv[t] |-> Payment(1, AllPaymentTypes[t])]]) :
        cv \in CountVectors(MaxPayTypes, MaxPayRows)}

DeliveredOrderTables == {<<Order(1, 0, 0, 0)>>}

---------------------------------------------------------------------------
(* Actions                                                                 *)

Init ==
    /\ pc = "start"
    /\ unreadable = {}
    /\ load_error = "none"
    /\ orders = <<>>
    /\ payments = <<>>
    /\ reviews = <<>>
    /\ date_range = <<>>
    /\ selected_payment = "All"
    /\ valid_orders = <<>>
    /\ filtered_orders = <<>>
    /\ orders_with_payments = <<>>
    /\ filtered_payments = <<>>
    /\ payment_data = <<>>
    /\ delivery_reviews = <<>>
    /\ on_time_rate = NotComputed
    /\ late_orders = <<>>
    /\ late_table = <<>>
    /\ avg_review = NotComputed
    /\ exception = "none"
    /\ shown = {}

\* Lines 26-28: the files in the order load_data reads them
Datasets == <<"orders", "payments", "reviews">>

\* The files that cannot be read: any set of them
UnreadableSets == SUBSET Range(Datasets)

\* Lines 26-31: the first read that raises ends the try block, and its
\* exception is the one st.error reports
FirstUnreadable(bad) ==
    Datasets[CHOOSE i \in 1..Len(Datasets) :
                /\ Datasets[i] \in bad
                /\ \A j \in 1..Len(Datasets) : Datasets[j] \in bad => i <= j]

\* A load that goes on when only the reviews file cannot be read
LoadedWithoutReviews(bad) == bad \subseteq {"reviews"}

\* Lines 29-32, 37: load_data returns the three tables only when no read
\* raised, and three None otherwise; line 37 asks for all three
LoadedAll(bad) == bad = {}

\* Lines 23-35 followed by the first run of the rest of the script
Load(order_tables, payment_tables, review_tables) ==
    /\ pc = "start"
    /\ \E bad \in UnreadableSets :
          /\ LoadedAll(bad)
          /\ unreadable' = bad
    /\ load_error' = "none"
    /\ \E o \in order_tables, p \in payment_tables, r \in review_tables,
          ties_reversed \in BOOLEAN :
          /\ orders' = o
          /\ payments' = p
          /\ reviews' = r
          /\ Script(o, p, r, <<>>, "All", ties_reversed)
    /\ pc' = "rendered"

LoadData == Load(OrderTables, PaymentTables, ReviewTables)

\* Lines 30-32, 360-378: a read raised; load_data reports it and returns
\* None three times, and the script shows the failure text and nothing else
LoadDataFails ==
    /\ pc = "start"
    /\ \E bad \in UnreadableSets :
          /\ ~LoadedAll(bad)
          /\ unreadable' = bad
          /\ load_error' = FirstUnreadable(bad)
    /\ pc' = "failed"
    /\ shown' = {"error_loading_data", "failed_to_load_data"}
    /\ UNCHANGED <<orders, payments, reviews, date_range, selected_payment,
                   valid_orders, filtered_orders, orders_with_payments,
                   filtered_payments, payment_data, delivery_reviews,
                   on_time_rate, late_orders, late_table, avg_review,
                   exception>>
LoadOneOrder == Load(OneOrderTables, OnePaymentTables, {<<>>})
LoadManyOrders == Load(ManyOrderTables, OnePaymentTables, {<<>>})
LoadManyPayments == Load(DeliveredOrderTables, ManyPaymentTables, {<<>>})

\* The user changes the date range in the sidebar: the script runs again
ChangeDateRange ==
    /\ pc = "rendered"
    /\ exception # "NaT_date"
    /\ \E dr \in DateRanges(valid_orders), ties_reversed \in BOOLEAN :
          /\ dr # date_range
          /\ Script(orders, payments, reviews, dr, selected_payment, ties_reversed)
    /\ UNCHANGED <<pc, unreadable, load_error, orders, payments, reviews>>

\* The user changes the payment method in the sidebar: the script runs again
ChangePaymentMethod ==
    /\ pc = "rendered"
    /\ exception # "NaT_date"
    /\ \E sel \in PaymentOptions(payments), ties_reversed \in BOOLEAN :
          /\ sel # selected_payment
          /\ Script(orders, payments, reviews, date_range, sel, ties_reversed)
    /\ UNCHANGED <<pc, unreadable, load_error, orders, payments, reviews>>

Next == LoadData \/ LoadDataFails \/ ChangeDateRange \/ ChangePaymentMethod
Spec == Init /\ [][Next]_vars

NextMetrics == LoadOneOrder \/ ChangeDateRange \/ ChangePaymentMethod
SpecMetrics == Init /\ [][NextMetrics]_vars

NextLate == LoadManyOrders \/ ChangeDateRange \/ ChangePaymentMethod
SpecLate == Init /\ [][NextLate]_vars

NextPay == LoadManyPayments \/ ChangeDateRange \/ ChangePaymentMethod
SpecPay == Init /\ [][NextPay]_vars

TypeOK ==
    /\ pc \in {"start", "rendered", "failed"}
    /\ unreadable \in UnreadableSets
    /\ exception \in {"none", "NaT_date", "empty_payment_data"}
    /\ Len(date_range) \in 0..2

---------------------------------------------------------------------------
(* Properties                                                              *)

Abs(x) == IF x >= 0 THEN x ELSE 0 - x
Rows(tbl) == {tbl[i] : i \in 1..Len(tbl)}
Ran == pc = "rendered"
FilterRan == Ran /\ exception # "NaT_date"
Completed == Ran /\ exception = "none"

\* The eligible orders whose purchase date lies in [s, e]
PurchasedWithin(valid, s, e) ==
    LET Keep(o) == s <= DateOf(o.order_purchase_timestamp)
                   /\ DateOf(o.order_purchase_timestamp) <= e
    IN SelectSeq(valid, Keep)

\* C1: with start <= end the filtered orders are exactly the eligible
\* orders whose purchase date d satisfies start <= d <= end; no order
\* purchased after the end date is selected.  Stated of the runs that
\* render the whole page.
C1_RangeFilterExact ==
    (Completed /\ Len(date_range) = 2 /\ date_range[1] <= date_range[2])
        => filtered_orders =
               PurchasedWithin(valid_orders, date_range[1], date_range[2])

\* C2 as stated: every order with delivery metrics has days_late >= 0, and
\* days_late > 0 exactly when is_late.
C2_DaysLatePositiveIffLate ==
    \A o \in Rows(valid_orders) :
        /\ o.days_late >= 0
        /\ (o.days_late > 0) <=> o.is_late

\* C2 as amended: days_late >= 0; an order that is not late has days_late
\* 0; a late order has days_late > 0 exactly when it was delivered at least
\* one whole day after the estimated time, so an order less than one whole
\* day late is late with days_late = 0.
C2_DaysLateWholeDays ==
    \A o \in Rows(valid_orders) :
        LET over == o.order_delivered_customer_date
                        - o.order_estimated_delivery_date
        IN /\ o.days_late >= 0
           /\ o.is_late <=> (over > 0)
           /\ ~o.is_late => o.days_late = 0
           /\ (o.days_late > 0) <=> (over >= OneDay)
           /\ o.is_late => /\ o.days_late * OneDay <= over
                           /\ over < (o.days_late + 1) * OneDay

C2_Witness ==
    \E o \in Rows(valid_orders) : o.is_late /\ o.days_late = 0

\* C8 as stated: delivery_days is the number of whole days from purchase to
\* delivery truncated toward zero, negative results kept (12 hours before
\* the purchase gives 0).
C8_DeliveryDaysTowardZero ==
    \A o \in Rows(valid_orders) :
        LET span == o.order_delivered_customer_date - o.order_purchase_timestamp
            n == o.delivery_days
        IN IF span >= 0
           THEN n * OneDay <= span /\ span < (n + 1) * OneDay
           ELSE (n - 1) * OneDay < span /\ span <= n * OneDay

\* C8 as amended: delivery_days is the number of whole days from purchase
\* to delivery rounded toward minus infinity; negative results are kept,
\* and a delivery less than one day before the purchase gives -1.
C8_DeliveryDaysFloor ==
    \A o \in Rows(valid_orders) :
        LET span == o.order_delivered_customer_date - o.order_purchase_timestamp
            n == o.delivery_days
        IN n * OneDay <= span /\ span < (n + 1) * OneDay

C8_Witness ==
    \E o \in Rows(valid_orders) :
        /\ o.order_delivered_customer_date < o.order_purchase_timestamp
        /\ o.order_purchase_timestamp - o.order_delivered_customer_date < OneDay
        /\ o.delivery_days = 0 - 1

\* C3: the on-time rate is within [0, 100] when the filtered set is not
\* empty, and when it is empty the page says that the rate is undefined
\* instead of showing a number.
C3_OnTimeRateDefinedOrSignalled ==
    Ran =>
        /\ (filtered_orders # <<>> /\ "on_time_metric" \in shown) =>
               /\ ~on_time_rate.nan
               /\ 0 <= on_time_rate.num
               /\ on_time_rate.num <= 100 * on_time_rate.den
        /\ filtered_orders = <<>> =>
               /\ "on_time_metric" \notin shown
               /\ "on_time_info" \in shown

C5_CountsSumToPaymentRows ==
    Completed =>
        SeqSum([i \in 1..Len(payment_data) |-> payment_data[i].count])
            = Len(payments)

PercentageSum ==
    SeqSum([i \in 1..Len(payment_data) |-> payment_data[i].percentage])

\* C6 as stated: the percentages of a non-empty payment distribution add
\* up to within 0.1 of 100 (percentages are in tenths).
C6_PercentagesWithinOneTenth ==
    (FilterRan /\ payment_data # <<>>) => Abs(PercentageSum - 1000) <= 1

\* C6 as amended: each percentage is within 0.05 of count / total * 100,
\* and the percentages of k payment types add up to within 0.05 * k of 100.
C6_PercentagesWithinHalfTenthEach ==
    (FilterRan /\ payment_data # <<>>) =>
        LET total == Len(orders_with_payments) IN
        /\ \A i \in 1..Len(payment_data) :
               2 * Abs(payment_data[i].percentage * total
                         - payment_data[i].count * 1000) <= total
        /\ 2 * Abs(PercentageSum - 1000) <= Len(payment_data)

C6_Witness ==
    /\ FilterRan
    /\ Len(payment_data) >= 6
    /\ Abs(PercentageSum - 1000) = 2

\* C7: with start > end the filtered order set is empty.  Stated of the
\* runs that render the whole page.
C7_ReversedRangeEmpty ==
    (Completed /\ Len(date_range) = 2 /\ date_range[1] > date_range[2])
        => filtered_orders = <<>>

\* C9: the payment distribution is computed over the payment rows of the
\* selected payment method only, and over all of them when "All" is
\* selected.  Stated of the runs that render the whole page.
C9_PaymentFilterApplied ==
    Completed =>
        /\ payment_data = PaymentData(filtered_payments)
        /\ selected_payment # "All" =>
               \A i \in 1..Len(payment_data) :
                   payment_data[i].payment_type = selected_payment

SameFraction(a, b) == a.nan = b.nan /\ a.num * b.den = b.num * a.den

ScoresOf(tbl) == [i \in 1..Len(tbl) |-> tbl[i].review_score]

\* C10 as stated: the displayed average review score is the mean of
\* review_score over all review rows as loaded, whatever the date range.
C10_AverageOverAllReviews ==
    "avg_review_metric" \in shown => SameFraction(avg_review, Mean(ScoresOf(reviews)))

\* C10 as amended: the displayed average review score is the mean of
\* review_score over the review rows whose order is in the date-filtered
\* eligible order set; it is displayed exactly when the run reaches the
\* review tab and some review row joins.
C10_AverageOverJoinedReviews ==
    LET ids == {o.order_id : o \in Rows(filtered_orders)}
        Joins(r) == r.order_id \in ids
        joined == SelectSeq(reviews, Joins)
    IN /\ "avg_review_metric" \in shown =>
              SameFraction(avg_review, Mean(ScoresOf(joined)))
       /\ ("avg_review_metric" \in shown) <=>
              (Ran /\ exception = "none" /\ joined # <<>>)

C10_Witness ==
    /\ "avg_review_metric" \in shown
    /\ Len(delivery_reviews) < Len(reviews)
    /\ ~SameFraction(avg_review, Mean(ScoresOf(reviews)))
    /\ Len(date_range) = 2
    /\ date_range[1] <= date_range[2]

\* The sections of the page and the data sets each one reads
Sections == {"payment_analysis", "delivery_performance", "customer_reviews"}

Needs(section) ==
    CASE section = "payment_analysis" -> {"orders", "payments"}
      [] section = "delivery_performance" -> {"orders"}
      [] section = "customer_reviews" -> {"orders", "reviews"}

\* The sections the script has entered
SectionsEntered == IF pc = "rendered" THEN Sections ELSE {}

\* C11 as stated: when exactly one data set cannot be loaded, the failure
\* names it and every section that does not read it is still entered (with
\* only the reviews unreadable, payment analysis and delivery performance).
C11_IndependentSectionsProceed ==
    \A d \in Range(Datasets) :
        (pc # "start" /\ unreadable = {d}) =>
            /\ load_error = d
            /\ \A s \in Sections : d \notin Needs(s) => s \in SectionsEntered

\* C11 as amended: loading is all or nothing.  When any data set cannot be
\* loaded, the error of the first failing read is reported, the general
\* failure text is shown and no section is entered and nothing is
\* computed, whichever data set failed; sections are entered only when all
\* three data sets were read.
C11_LoadIsAllOrNothing ==
    /\ (pc # "start" /\ unreadable # {}) =>
           /\ pc = "failed"
           /\ load_error \in unreadable
           /\ \A d \in unreadable :
                  \E i, j \in 1..Len(Datasets) :
                      Datasets[i] = load_error /\ Datasets[j] = d /\ i <= j
           /\ shown = {"error_loading_data", "failed_to_load_data"}
           /\ SectionsEntered = {}
           /\ orders = <<>> /\ payments = <<>> /\ reviews = <<>>
           /\ valid_orders = <<>> /\ payment_data = <<>>
           /\ on_time_rate = NotComputed /\ avg_review = NotComputed
    /\ pc = "failed" => unreadable # {}
    /\ pc = "rendered" =>
           /\ unreadable = {}
           /\ load_error = "none"
           /\ "failed_to_load_data" \notin shown

C11_Witness ==
    /\ pc = "failed"
    /\ unreadable = {"reviews"}
    /\ load_error = "reviews"
    /\ SectionsEntered = {}

=============================================================================
